---- MODULE Spec2Model ----
(***************************************************************************)
(* Model of baseband.vlbi_base.payload.VLBIPayloadBase: a container of     *)
(* 32-bit little-endian words that encode samples, with construction,      *)
(* file input/output, decoding, item access, item assignment and equality. *)
(*                                                                         *)
(* Arrays are records [kind, shape, vals]: kind is the numpy dtype kind    *)
(* ("f" float, "c" complex, "i" integer), shape the dimensions and vals    *)
(* the elements in C order.  A complex element takes two consecutive       *)
(* entries of vals (real part, imaginary part), which is the memory layout *)
(* numpy's .view() between float32 and complex64 relies on.  Sample values *)
(* are integers (both codecs of the repository decode to whole numbers).   *)
(***************************************************************************)
EXTENDS Integers, Sequences, FiniteSets, TLC

\* ------------------------------------------------------------------ bounds
\* Largest number of words of a payload.
MaxWords == 2
\* Largest magnitude of an index, or of a slice's start and stop.
MaxIdx == 4
\* Number of freely chosen operations applied to one payload instance.
MaxOps == 1
\* Number of payloads written to one stream.
MaxWrites == 1
\* Number of words of the payload class that declares a fixed size.
FixedWords == 2

\* --------------------------------------------------------------- constants
\* 8 * DTYPE_WORD.itemsize: bits per word.
BitsPerWord == 32
\* DTYPE_WORD.itemsize: bytes per word.
WordBytes == 4

\* Python's None, where an integer is expected otherwise.
None == 0 - 1000

\* ------------------------------------------------------- generic helpers
RECURSIVE Prod(_)
Prod(s) == IF s = <<>> THEN 1 ELSE Head(s) * Prod(Tail(s))

Min(a, b) == IF a < b THEN a ELSE b
Max(a, b) == IF a > b THEN a ELSE b

RECURSIVE Flatten(_)
Flatten(ss) == IF ss = <<>> THEN <<>> ELSE Head(ss) \o Flatten(Tail(ss))

\* The element of a singleton set; The({ e(x) : x \in {v} }) is e with x
\* standing for the value of v.
The(S) == CHOOSE x \in S : TRUE

\* An operation's outcome: a value, or the exception it raised.
Ok(v) == [exc |-> "none", val |-> v]
Err(e) == [exc |-> e, val |-> <<>>]

\* ----------------------------------------------------- python sequences
\* slice(start, stop, step).indices(len): the clamped start, stop and step.
SliceIndices(start, stop, step, len) ==
    LET st == IF step = None THEN 1 ELSE step
        lower == IF st < 0 THEN 0 - 1 ELSE 0
        upper == IF st < 0 THEN len - 1 ELSE len
        adj(v, dflt) ==
            IF v = None THEN dflt
            ELSE IF v < 0 THEN Max(v + len, lower)
            ELSE Min(v, upper)
    IN  << adj(start, IF st < 0 THEN upper ELSE lower),
           adj(stop, IF st < 0 THEN lower ELSE upper),
           st >>

\* len(range(start, stop, step)).
RangeLen(start, stop, step) ==
    IF step > 0
    THEN (IF stop > start THEN (stop - start + step - 1) \div step ELSE 0)
    ELSE (IF start > stop THEN (start - stop - step - 1) \div (0 - step) ELSE 0)

\* The positions (0-based) a slice selects on a sequence of length len.
SlicePositions(sl, len) ==
    The({ [k \in 1..RangeLen(ind[1], ind[2], ind[3]) |-> ind[1] + (k - 1) * ind[3]] :
          ind \in { SliceIndices(sl[1], sl[2], sl[3], len) } })

\* seq[slice] for a one-dimensional sequence.
SeqSlice(seq, sl) ==
    The({ [k \in 1..Len(pos) |-> seq[pos[k] + 1]] :
          pos \in { SlicePositions(sl, Len(seq)) } })

FullSlice == << None, None, None >>

\* ------------------------------------------------------------ word arrays
\* A 32-bit unsigned word is written as its two 16-bit halves:
\* Word(hi, lo) stands for hi * 2^16 + lo.
Word(hi, lo) == << hi, lo >>

\* The bytes of one word, most significant byte first.
WordToBytes_BigEndian(w) == << w[1] \div 256, w[1] % 256, w[2] \div 256, w[2] % 256 >>

\* The bytes of one word of dtype '<u4': least significant byte first.
WordToBytes(w) == << w[2] % 256, w[2] \div 256, w[1] % 256, w[1] \div 256 >>

\* words.tostring(): the bytes of a word array.
tostring(words) == Flatten([k \in 1..Len(words) |-> WordToBytes(words[k])])

\* np.fromstring(s, dtype=DTYPE_WORD) / .view(DTYPE_WORD): a whole number of
\* words is required.
fromstring(bytes) ==
    IF Len(bytes) % WordBytes # 0 THEN Err("ValueError")
    ELSE Ok([k \in 1..(Len(bytes) \div WordBytes) |->
                Word(bytes[4 * k] * 256 + bytes[4 * k - 1],
                     bytes[4 * k - 2] * 256 + bytes[4 * k - 3])])

\* ------------------------------------------------------------------ codecs
\* decode_8bit: the bytes of the words read as signed 8-bit integers.
decode_8bit(words) ==
    The({ [k \in 1..Len(b) |-> IF b[k] >= 128 THEN b[k] - 256 ELSE b[k]] :
          b \in { tostring(words) } })

\* Clip to [0, 255] and store as unsigned bytes.
encode_8bit_Unsigned(vals) ==
    fromstring([k \in 1..Len(vals) |-> Max(0, Min(255, vals[k]))])

\* encode_8bit: clip to [-128, 127] and store as signed bytes.
encode_8bit(vals) ==
    fromstring([k \in 1..Len(vals) |-> Max(0 - 128, Min(127, vals[k])) % 256])

\* decode_1bit: np.unpackbits, most significant bit of each byte first.
decode_1bit(words) ==
    The({ [k \in 1..(8 * Len(b)) |->
              (b[((k - 1) \div 8) + 1] \div (2 ^ (7 - ((k - 1) % 8)))) % 2] :
          b \in { tostring(words) } })

\* encode_1bit: np.packbits, a non-zero value sets the bit, the last byte is
\* padded with zero bits.
encode_1bit(vals) ==
    LET nb == (Len(vals) + 7) \div 8
        bit(j) == IF j <= Len(vals) /\ vals[j] # 0 THEN 1 ELSE 0
        byte(k) == bit(8 * k - 7) * 128 + bit(8 * k - 6) * 64 + bit(8 * k - 5) * 32
                   + bit(8 * k - 4) * 16 + bit(8 * k - 3) * 8 + bit(8 * k - 2) * 4
                   + bit(8 * k - 1) * 2 + bit(8 * k)
    IN  fromstring([k \in 1..nb |-> byte(k)])

\* The keys (bps, complex_data) of _decoders and of _encoders.  The class of
\* the tests registers codecs for 1 and for 8 bits; complex samples are the
\* real decoder's output taken in (real, imaginary) pairs.
_decoders == { <<1, FALSE>>, <<8, FALSE>>, <<8, TRUE>> }
_encoders == { <<1, FALSE>>, <<8, FALSE>>, <<8, TRUE>> }

\* The decoder registered for bps applied to words: the flat sample parts.
Decode(bps, words) == IF bps = 1 THEN decode_1bit(words) ELSE decode_8bit(words)

\* The encoder registered for bps applied to flat sample parts.
Encode(bps, vals) == IF bps = 1 THEN encode_1bit(vals) ELSE encode_8bit(vals)

\* ------------------------------------------------------------------ arrays
\* Entries of vals per element.
ElemWidth(kind) == IF kind = "c" THEN 2 ELSE 1

Array(kind, shape, vals) == [kind |-> kind, shape |-> shape, vals |-> vals]

\* Number of elements of an array.
ArraySize(a) == Prod(a.shape)

\* flat.view(kind).reshape(shape): the element count has to match.
Reshape(kind, vals, shape) ==
    IF Len(vals) % ElemWidth(kind) # 0 THEN Err("ValueError")
    ELSE IF Len(vals) \div ElemWidth(kind) # Prod(shape) THEN Err("ValueError")
    ELSE Ok(Array(kind, shape, vals))

\* flat.view(kind).reshape(-1, *sample_shape): the leading dimension is
\* inferred.
ReshapeRows(kind, vals, sample_shape) ==
    LET per == Prod(sample_shape) * ElemWidth(kind)
    IN  IF per = 0 \/ Len(vals) % per # 0 THEN Err("ValueError")
        ELSE Ok(Array(kind, <<Len(vals) \div per>> \o sample_shape, vals))

\* Entries of vals per index of the first axis.
RowLen(a) == Prod(Tail(a.shape)) * ElemWidth(a.kind)

\* Row i (0-based) of an array.
Row(a, i) == SubSeq(a.vals, i * RowLen(a) + 1, (i + 1) * RowLen(a))

\* a[i] for an integer i: negative indices count from the end.
IndexInt(a, i) ==
    LET rows == a.shape[1]
        j == IF i < 0 THEN i + rows ELSE i
    IN  IF a.shape = <<>> \/ j < 0 \/ j >= rows THEN Err("IndexError")
        ELSE Ok(Array(a.kind, Tail(a.shape), Row(a, j)))

\* a[start:stop:step].
IndexSlice(a, sl) ==
    IF a.shape = <<>> THEN Err("IndexError")
    ELSE The({ Ok(Array(a.kind, <<Len(pos)>> \o Tail(a.shape),
                        Flatten([k \in 1..Len(pos) |-> Row(a, pos[k])]))) :
               pos \in { SlicePositions(sl, a.shape[1]) } })

\* An index along the first axis: an integer or a slice.
IntIdx(i) == [t |-> "int", i |-> i, sl |-> FullSlice]
SliceIdx(start, stop, step) == [t |-> "slice", i |-> 0, sl |-> <<start, stop, step>>]
NoIdx == [t |-> "none", i |-> 0, sl |-> FullSlice]

\* a[idx] for an index along the first axis.
Index1(a, idx) == IF idx.t = "int" THEN IndexInt(a, idx.i) ELSE IndexSlice(a, idx.sl)

\* An item as given to payload[item]: an integer or a slice (a and b unused),
\* a tuple (a, b) of two indices, the empty tuple (), or a string.
IntItem(i) == [t |-> "int", i |-> i, sl |-> FullSlice, a |-> NoIdx, b |-> NoIdx]
SliceItem(start, stop, step) ==
    [t |-> "slice", i |-> 0, sl |-> <<start, stop, step>>, a |-> NoIdx, b |-> NoIdx]
TupleItem(a, b) == [t |-> "tuple", i |-> 0, sl |-> FullSlice, a |-> a, b |-> b]
EmptyTuple == TupleItem(NoIdx, NoIdx)
StrItem == [t |-> "str", i |-> 0, sl |-> FullSlice, a |-> NoIdx, b |-> NoIdx]

\* a[i, j] on an array of two or more dimensions, each index an integer or a
\* slice.
Index2(arr, a, b) ==
    LET first == Index1(arr, a)
        rest == Tail(arr.shape)
        r == first.val
        sub(k) == Index1(Array(arr.kind, rest, Row(r, k - 1)), b)
    IN  IF Len(arr.shape) < 2 THEN Err("IndexError")
        ELSE IF first.exc # "none" THEN first
        ELSE IF a.t = "int" THEN Index1(r, b)
        ELSE IF b.t = "int" /\ ~(0 - rest[1] <= b.i /\ b.i < rest[1]) THEN Err("IndexError")
        ELSE LET cols == IF b.t = "int" THEN Tail(rest)
                         ELSE <<Len(SlicePositions(b.sl, rest[1]))>> \o Tail(rest)
             IN  Ok(Array(arr.kind, <<r.shape[1]>> \o cols,
                          Flatten([k \in 1..r.shape[1] |-> sub(k).val.vals])))

\* arr[item] as numpy evaluates it on a decoded array.
ArrayIndex(arr, item) ==
    IF item.t = "int" \/ item.t = "slice" THEN Index1(arr, item)
    ELSE IF item = EmptyTuple THEN Ok(arr)
    ELSE IF item.t = "tuple" THEN Index2(arr, item.a, item.b)
    ELSE Err("IndexError")

\* ---------------------------------------------------------------- payload
\* No class declares a fixed size.
_size_Unset(cls) == None

\* cls._size of the two payload classes: "Payload" declares no fixed size,
\* "FixedPayload" declares one.
_size(cls) == IF cls = "FixedPayload" THEN WordBytes * FixedWords ELSE None

\* VLBIPayloadBase.size: size in bytes.
size(p) == Len(p.words) * WordBytes

\* The number of samples, counting one that the words hold in part.
nsample_Ceil(p) == (size(p) * 8 + p.bpfs - 1) \div p.bpfs

\* VLBIPayloadBase.nsample.
nsample(p) == (size(p) * 8) \div p.bpfs

\* VLBIPayloadBase.shape.
shape(p) == <<nsample(p)>> \o p.sample_shape

\* VLBIPayloadBase.dtype, by its kind.
dtype(p) == IF p.complex_data THEN "c" ELSE "f"

\* self._bpfs as __init__ computes it.
bpfs(bps, sample_shape, complex_data) ==
    bps * (IF complex_data THEN 2 ELSE 1) * Prod(sample_shape)

\* VLBIPayloadBase.__init__: wid names the word array object held.
__init__(cls, wid, words, bps, sample_shape, complex_data) ==
    LET self == [cls |-> cls, wid |-> wid, words |-> words, bps |-> bps,
                 sample_shape |-> sample_shape, complex_data |-> complex_data,
                 bpfs |-> bpfs(bps, sample_shape, complex_data)]
    IN  IF _size(cls) # None /\ _size(cls) # size(self) THEN Err("ValueError")
        ELSE Ok(self)

\* VLBIPayloadBase.todata() without an output array.
todata(p) ==
    IF <<p.bps, p.complex_data>> \notin _decoders THEN Err("KeyError")
    ELSE The({ Reshape(dtype(p), flat, shape(p)) : flat \in { Decode(p.bps, p.words) } })

\* The word slice when each full sample takes wpfs whole words.
WordsSliceWhole(start, stop, wpfs) == << start * wpfs, stop * wpfs, None >>

\* The word slice without the word that holds the last samples in part.
WordsSlicePacked_Floor(start, stop, fspw) ==
    << start \div fspw, stop \div fspw, None >>

\* The word slice when each word holds fspw full samples: the words in which
\* the samples start..stop-1 are contained.
WordsSlicePacked(start, stop, fspw) ==
    << start \div fspw,
       IF stop % fspw # 0 THEN (stop \div fspw) + 1 ELSE stop \div fspw,
       None >>

\* The slice of the decoded words that holds samples start..start+n-1, when
\* each word holds fspw full samples.
DataSlicePacked(start, stop, n, step, fspw) ==
    SliceIdx(IF start % fspw # 0 THEN start % fspw ELSE None,
             IF stop % fspw # 0 THEN (start % fspw) + n ELSE None,
             step)

\* The branch taken for every bpfs that is not a multiple of the word width.
WordHoldsSamples_Else(bpw, n) == TRUE

\* elif bpw % bpfs == 0: each word contains multiple samples.
WordHoldsSamples(bpw, n) == bpw % n = 0

\* The index taken as it is.
WrapIndex_AsIs(item, n) == item

\* if item < 0: item += self.nsample
WrapIndex(item, n) == IF item < 0 THEN item + n ELSE item

\* VLBIPayloadBase._item_to_slices: the slice of the words to decode and the
\* index into the decoded rows.  An item is an integer (t = "int"), a slice
\* (t = "slice"), or an object without __index__ (a tuple, a string).
_item_to_slices(p, item) ==
    LET is_slice == item.t = "slice"
        ind == SliceIndices(item.sl[1], item.sl[2], item.sl[3], nsample(p))
        idx == WrapIndex(item.i, nsample(p))
        start == IF is_slice THEN ind[1] ELSE idx
        stop == IF is_slice THEN ind[2] ELSE idx + 1
        step == IF is_slice THEN (IF ind[3] = 1 THEN None ELSE ind[3]) ELSE 1
        n == IF is_slice THEN stop - start ELSE 1
        bpw == BitsPerWord
    IN  IF ~is_slice /\ item.t # "int" THEN Err("TypeError")
        ELSE IF ~is_slice /\ ~(0 <= idx /\ idx < nsample(p)) THEN Err("IndexError")
        ELSE IF n = nsample(p)
        THEN Ok([words_slice |-> FullSlice,
                 data_slice |-> IF is_slice THEN SliceIdx(None, None, step)
                                ELSE IntIdx(0)])
        ELSE IF p.bpfs % bpw = 0
        THEN Ok([words_slice |-> WordsSliceWhole(start, stop, p.bpfs \div bpw),
                 data_slice |-> IF is_slice THEN SliceIdx(None, None, step)
                                ELSE IntIdx(0)])
        ELSE IF WordHoldsSamples(bpw, p.bpfs)
        THEN Ok([words_slice |-> WordsSlicePacked(start, stop, bpw \div p.bpfs),
                 data_slice |-> IF is_slice
                                THEN DataSlicePacked(start, stop, n, step, bpw \div p.bpfs)
                                ELSE IntIdx(start % (bpw \div p.bpfs))])
        ELSE Err("TypeError")

\* The item () and the item slice(None), which select the whole payload.
IsWhole(item) == item = EmptyTuple \/ (item.t = "slice" /\ item.sl = FullSlice)

\* decoder(words).view(dtype).reshape(-1, *sample_shape): the rows decoded
\* from the given words of the payload.
DecodeRows(p, words) ==
    The({ ReshapeRows(dtype(p), flat, p.sample_shape) :
          flat \in { Decode(p.bps, words) } })

\* decoder(self.words).view(dtype).reshape(self.shape)
DecodeAll(p) ==
    The({ Reshape(dtype(p), flat, shape(p)) : flat \in { Decode(p.bps, p.words) } })

\* The part of __getitem__ that follows _item_to_slices, s being its outcome.
GetSlices(p, s) ==
    IF s.exc # "none" THEN Err(s.exc)
    ELSE The({ IF rows.exc # "none" THEN Err(rows.exc)
               ELSE Index1(rows.val, s.val.data_slice) :
               rows \in { DecodeRows(p, SeqSlice(p.words, s.val.words_slice)) } })

\* VLBIPayloadBase.__getitem__.
__getitem__(p, item) ==
    IF <<p.bps, FALSE>> \notin _decoders THEN Err("KeyError")
    ELSE IF IsWhole(item) THEN DecodeAll(p)
    ELSE The({ GetSlices(p, s) : s \in { _item_to_slices(p, item) } })

\* The entries of vals after numpy casts an array to the kind of the array it
\* is assigned into: a real value becomes (value, 0) in a complex array, a
\* complex value loses its imaginary part in a real array.
CastVals(a, kind) ==
    IF ElemWidth(a.kind) = ElemWidth(kind) THEN a.vals
    ELSE IF kind = "c"
    THEN Flatten([k \in 1..Len(a.vals) |-> <<a.vals[k], 0>>])
    ELSE [k \in 1..(Len(a.vals) \div 2) |-> a.vals[2 * k - 1]]

\* The entries of an array of shape dshape broadcast to shape rshape (w
\* entries per element); dshape has as many dimensions as rshape.
RECURSIVE BroadcastVals(_, _, _, _)
BroadcastVals(dshape, vals, rshape, w) ==
    IF rshape = <<>> THEN vals
    ELSE LET chunk == Prod(Tail(dshape)) * w
             part(k) == IF dshape[1] = 1 THEN vals
                        ELSE SubSeq(vals, (k - 1) * chunk + 1, k * chunk)
         IN  Flatten([k \in 1..rshape[1] |->
                         BroadcastVals(Tail(dshape), part(k), Tail(rshape), w)])

\* A shape without the leading dimensions of length 1 it has in excess of nr
\* dimensions (an assignment ignores them).
RECURSIVE StripLeading(_, _)
StripLeading(dshape, nr) ==
    IF Len(dshape) > nr /\ dshape[1] = 1 THEN StripLeading(Tail(dshape), nr)
    ELSE dshape

\* Whether numpy broadcasts shape dshape to shape rshape in an assignment.
Broadcastable(dshape, rshape) ==
    LET d == StripLeading(dshape, Len(rshape))
        nd == Len(d)
        nr == Len(rshape)
    IN  /\ nd <= nr
        /\ \A k \in 1..nd : d[k] = rshape[nr - nd + k] \/ d[k] = 1

\* The entries of data broadcast to an array of the given kind and shape, as
\* target[...] = data stores them.
Broadcast(data, kind, rshape) ==
    LET d == StripLeading(data.shape, Len(rshape))
        nd == Len(d)
        nr == Len(rshape)
        padded == [k \in 1..(nr - nd) |-> 1]
    IN  IF ~Broadcastable(data.shape, rshape) THEN Err("ValueError")
        ELSE Ok(BroadcastVals(padded \o d, CastVals(data, kind),
                              rshape, ElemWidth(kind)))

\* The rows of cur with the rows at positions pos (0-based) replaced by the
\* consecutive rows of vals.
ReplaceRows(cur, pos, vals) ==
    LET rl == RowLen(cur)
        where(r) == CHOOSE k \in 1..Len(pos) : pos[k] = r
        newrow(r) == IF \E k \in 1..Len(pos) : pos[k] = r
                     THEN SubSeq(vals, (where(r) - 1) * rl + 1, where(r) * rl)
                     ELSE Row(cur, r)
    IN  Array(cur.kind, cur.shape, Flatten([r \in 1..cur.shape[1] |-> newrow(r - 1)]))

\* current_data[pos] = data for the rows at positions pos; rshape is the
\* shape of the region assigned to.
AssignRegion(cur, pos, rshape, data) ==
    The({ IF b.exc # "none" THEN Err(b.exc) ELSE Ok(ReplaceRows(cur, pos, b.val)) :
          b \in { Broadcast(data, cur.kind, rshape) } })

\* current_data[data_slice] = data: the array after the assignment.
AssignRows(cur, data_slice, data) ==
    IF data_slice.t = "int"
    THEN (IF 0 <= data_slice.i /\ data_slice.i < cur.shape[1]
          THEN AssignRegion(cur, <<data_slice.i>>, Tail(cur.shape), data)
          ELSE Err("IndexError"))
    ELSE The({ AssignRegion(cur, pos, <<Len(pos)>> \o Tail(cur.shape), data) :
               pos \in { SlicePositions(data_slice.sl, cur.shape[1]) } })

\* The words with those at positions pos (0-based) replaced by encoded.
ReplaceWords(words, pos, encoded) ==
    LET at(j) == CHOOSE k \in 1..Len(pos) : pos[k] = j
        new(j) == IF \E k \in 1..Len(pos) : pos[k] = j
                  THEN (IF Len(encoded) = 1 THEN encoded[1] ELSE encoded[at(j)])
                  ELSE words[j + 1]
    IN  [j \in 1..Len(words) |-> new(j - 1)]

\* words[words_slice] = encoded: lengths have to agree, except that a single
\* word is broadcast.
AssignWords(words, words_slice, encoded) ==
    The({ IF Len(encoded) # Len(pos) /\ Len(encoded) # 1 THEN Err("ValueError")
          ELSE Ok(ReplaceWords(words, pos, encoded)) :
          pos \in { SlicePositions(words_slice, Len(words)) } })

\* data.shape[-len(self.sample_shape):]
TrailingShape(dshape, k) ==
    IF k = 0 \/ k >= Len(dshape) THEN dshape
    ELSE SubSeq(dshape, Len(dshape) - k + 1, Len(dshape))

\* The test without the condition on data_slice.
AvoidDecoding_AnySlice(p, data_slice, data) ==
    /\ TrailingShape(data.shape, Len(p.sample_shape)) = p.sample_shape
    /\ data.kind = dtype(p)

\* The test of __setitem__ for encoding the data without decoding first.
AvoidDecoding(p, data_slice, data) ==
    /\ data_slice.t = "slice" /\ data_slice.sl = FullSlice
    /\ TrailingShape(data.shape, Len(p.sample_shape)) = p.sample_shape
    /\ data.kind = dtype(p)

\* The end of __setitem__: flat, the raveled data with complex values viewed
\* as pairs of reals, is encoded and stored in the words.
EncodeInto(p, words_slice, flat) ==
    IF <<p.bps, FALSE>> \notin _encoders THEN Err("KeyError")
    ELSE The({ IF encoded.exc # "none" THEN Err(encoded.exc)
               ELSE The({ IF stored.exc # "none" THEN Err(stored.exc)
                          ELSE Ok([p EXCEPT !.words = stored.val]) :
                          stored \in { AssignWords(p.words, words_slice, encoded.val) } }) :
               encoded \in { Encode(p.bps, flat) } })

\* The branch of __setitem__ that decodes the words, assigns the data to the
\* decoded rows and encodes them again.
DecodeAssignEncode(p, words_slice, data_slice, data) ==
    IF <<p.bps, FALSE>> \notin _decoders THEN Err("KeyError")
    ELSE The({ IF current.exc # "none" THEN Err(current.exc)
               ELSE The({ IF assigned.exc # "none" THEN Err(assigned.exc)
                          ELSE EncodeInto(p, words_slice, assigned.val.vals) :
                          assigned \in { AssignRows(current.val, data_slice, data) } }) :
               current \in { DecodeRows(p, SeqSlice(p.words, words_slice)) } })

\* The part of __setitem__ that follows _item_to_slices, s being its outcome.
SetSlices(p, s, data) ==
    IF s.exc # "none" THEN Err(s.exc)
    ELSE IF AvoidDecoding(p, s.val.data_slice, data)
    THEN EncodeInto(p, s.val.words_slice, data.vals)
    ELSE DecodeAssignEncode(p, s.val.words_slice, s.val.data_slice, data)

\* VLBIPayloadBase.__setitem__: the payload after the assignment, or the
\* exception raised (the payload is then as it was).
__setitem__(p, item, data) ==
    The({ SetSlices(p, s, data) :
          s \in { IF IsWhole(item)
                  THEN Ok([words_slice |-> FullSlice,
                           data_slice |-> SliceIdx(None, None, None)])
                  ELSE _item_to_slices(p, item) } })

\* np.all(a == b) on two word arrays: the comparison is elementwise, an
\* array of one word is broadcast against the other, and arrays of other
\* unequal lengths compare False as a whole.
WordsAllEqual(a, b) ==
    IF Len(a) = Len(b) THEN \A k \in 1..Len(a) : a[k] = b[k]
    ELSE IF Len(a) = 1 THEN \A k \in 1..Len(b) : b[k] = a[1]
    ELSE IF Len(b) = 1 THEN \A k \in 1..Len(a) : a[k] = b[1]
    ELSE FALSE

\* VLBIPayloadBase.__eq__.
__eq__(self, other) ==
    /\ self.cls = other.cls
    /\ shape(self) = shape(other)
    /\ dtype(self) = dtype(other)
    /\ \/ self.wid = other.wid
       \/ WordsAllEqual(self.words, other.words)

\* VLBIPayloadBase.__ne__.
__ne__(self, other) == ~__eq__(self, other)

\* fromdata without the try/except around the lookup of the encoder.
fromdata_KeyError(cls, wid, data, bps) ==
    IF <<bps, data.kind = "c">> \notin _encoders THEN Err("KeyError")
    ELSE The({ IF words.exc # "none" THEN Err(words.exc)
               ELSE __init__(cls, wid, words.val, bps,
                             IF data.shape = <<>> THEN <<>> ELSE Tail(data.shape),
                             data.kind = "c") :
               words \in { Encode(bps, data.vals) } })

\* fromdata taking the whole shape of the data as the sample shape.
fromdata_KeepShape(cls, wid, data, bps) ==
    IF <<bps, data.kind = "c">> \notin _encoders THEN Err("ValueError")
    ELSE The({ IF words.exc # "none" THEN Err(words.exc)
               ELSE __init__(cls, wid, words.val, bps, data.shape, data.kind = "c") :
               words \in { Encode(bps, data.vals) } })

\* VLBIPayloadBase.fromdata: wid names the new word array.
fromdata(cls, wid, data, bps) ==
    IF <<bps, data.kind = "c">> \notin _encoders THEN Err("ValueError")
    ELSE The({ IF words.exc # "none" THEN Err(words.exc)
               ELSE __init__(cls, wid, words.val, bps,
                             IF data.shape = <<>> THEN <<>> ELSE Tail(data.shape),
                             data.kind = "c") :
               words \in { Encode(bps, data.vals) } })

\* fh.read(n): the bytes from the cursor, at most n of them.
read(f, n) ==
    SubSeq(f.bytes, f.pos + 1, Min(Len(f.bytes), f.pos + n))

\* The file handle with the cursor where it was before the read.
AfterRead_Rewind(f, n) == f

\* The file handle after fh.read(n).
AfterRead(f, n) == [f EXCEPT !.pos = f.pos + Len(read(f, n))]

\* The file handle after fh.write(b): the bytes at the cursor are replaced,
\* the stream grows as needed (zero filled up to the cursor).
AfterWrite(f, b) ==
    LET end == f.pos + Len(b)
        total == Max(Len(f.bytes), end)
    IN  [f EXCEPT !.bytes = [k \in 1..total |->
                                IF k > f.pos /\ k <= end THEN b[k - f.pos]
                                ELSE IF k <= Len(f.bytes) THEN f.bytes[k]
                                ELSE 0],
                  !.pos = end]

\* fromfile that reads before it looks at payloadsize: fh.read(None) takes
\* all the bytes that are left.
fromfile_ReadFirst(cls, wid, f, payloadsize, c) ==
    LET psize == IF payloadsize = None THEN _size(cls) ELSE payloadsize
        s == read(f, psize)
        words == fromstring(s)
    IN  IF psize = None
        THEN [res |-> Err("ValueError"),
              fh |-> [f EXCEPT !.pos = Max(f.pos, Len(f.bytes))]]
        ELSE IF Len(s) < psize
        THEN [res |-> Err("EOFError"), fh |-> AfterRead(f, psize)]
        ELSE IF words.exc # "none"
        THEN [res |-> Err(words.exc), fh |-> AfterRead(f, psize)]
        ELSE [res |-> __init__(cls, wid, words.val, c.bps, c.sample_shape,
                               c.complex_data),
              fh |-> AfterRead(f, psize)]

\* VLBIPayloadBase.fromfile: the outcome, and the file handle afterwards.
\* payloadsize = None stands for a call without that argument.
fromfile(cls, wid, f, payloadsize, c) ==
    LET psize == IF payloadsize = None THEN _size(cls) ELSE payloadsize
        s == read(f, psize)
        words == fromstring(s)
    IN  IF psize = None THEN [res |-> Err("ValueError"), fh |-> f]
        ELSE IF Len(s) < psize
        THEN [res |-> Err("EOFError"), fh |-> AfterRead(f, psize)]
        ELSE IF words.exc # "none"
        THEN [res |-> Err(words.exc), fh |-> AfterRead(f, psize)]
        ELSE [res |-> __init__(cls, wid, words.val, c.bps, c.sample_shape,
                               c.complex_data),
              fh |-> AfterRead(f, psize)]

\* VLBIPayloadBase.tofile: the file handle afterwards.
tofile(p, f) == AfterWrite(f, tostring(p.words))

\* ------------------------------------------------------------------- inputs
\* Word values a payload is built from: 0x12345678 and 0xffff0000, the words
\* of the tests' fixture.
WordSet == { Word(4660, 22136), Word(65535, 0) }

\* The word arrays of one to MaxWords words.
WordArrays == UNION { [1..n -> WordSet] : n \in 1..MaxWords }

\* The payload classes.
Classes == { "Payload", "FixedPayload" }

\* (bps, sample_shape, complex_data) given to the constructor.
Cfg(bps, sample_shape, complex_data) ==
    [bps |-> bps, sample_shape |-> sample_shape, complex_data |-> complex_data]

Configs ==
    { Cfg(8, <<>>, FALSE), Cfg(8, <<2>>, FALSE), Cfg(8, <<4>>, FALSE),
      Cfg(8, <<3>>, FALSE), Cfg(8, <<>>, TRUE), Cfg(8, <<2>>, TRUE),
      Cfg(8, <<4>>, TRUE), Cfg(1, <<8>>, FALSE), Cfg(1, <<5>>, TRUE),
      Cfg(4, <<2>>, FALSE) }

\* Integer indices, and the start and stop of slices.
IdxVals == (0 - MaxIdx)..MaxIdx
StepVals == { None, 1, 2, 0 - 1 }

TupleItems ==
    { TupleItem(a, b) :
        a \in { IntIdx(1), IntIdx(0 - 1), SliceIdx(None, None, None), SliceIdx(1, 3, None) },
        b \in { IntIdx(0), IntIdx(1), IntIdx(5), SliceIdx(None, None, None) } }

Items ==
    { IntItem(i) : i \in IdxVals }
    \cup { SliceItem(a, b, st) : a \in IdxVals \cup {None}, b \in IdxVals \cup {None},
                                 st \in StepVals }
    \cup TupleItems \cup { EmptyTuple, StrItem }

\* Values assigned as a scalar: one the codecs store exactly, one they clip.
FillVals == { 1, 200 }

\* 1 - a, element by element (real part 1 - re, imaginary part -im).
OneMinus(a) ==
    The({ Array(x.kind, x.shape,
                [k \in 1..Len(x.vals) |->
                    IF x.kind = "c" /\ k % 2 = 0 THEN 0 - x.vals[k] ELSE 1 - x.vals[k]]) :
          x \in { a } })

\* An array of the given kind and shape with the entries 1, 2, 3, ...
Counting(kind, shp) ==
    Array(kind, shp, [k \in 1..(Prod(shp) * ElemWidth(kind)) |-> k])

\* Arrays of the payload's dtype whose shape need not be that of the region
\* assigned to: one, two or three samples, ten values, a scalar, and two
\* samples of one channel more.
ShapedData(p) ==
    { Counting(dtype(p), <<k>> \o p.sample_shape) : k \in 1..3 }
    \cup { Counting(dtype(p), <<10>>), Counting(dtype(p), <<>>) }
    \cup (IF p.sample_shape = <<>> THEN {}
          ELSE { Counting(dtype(p), <<2, p.sample_shape[1] + 1>>) })

\* The data assigned to payload[item]: an integer scalar, 1 - payload[item]
\* when the item can be read, and for an integer or a slice without a step
\* the arrays above.
SetData(p, item) ==
    { Array("i", <<>>, <<v>>) : v \in FillVals }
    \cup { OneMinus(r.val) : r \in { g \in { __getitem__(p, item) } : g.exc = "none" } }
    \cup (IF item.t = "int" \/ (item.t = "slice" /\ item.sl[3] = None)
          THEN ShapedData(p) ELSE {})

\* -------------------------------------------------------------------- state
VARIABLES
    payload,    \* the payload instance operated on
    nops,       \* number of freely chosen operations applied to it
    last,       \* the last operation: its arguments and its outcome
    fh,         \* the file handle: the bytes of the stream, the cursor, the
                \* number of payloads written and where the last one begins
    frame       \* the frame instance operated on, if there is one

vars == << payload, nops, last, fh, frame >>

NoArray == Array("f", <<0>>, <<>>)
NoPayload == [some |-> FALSE]
Some(p) == [some |-> TRUE, p |-> p]

\* The record of an operation: op names it, item and data are its arguments,
\* before the payload it was applied to, exc the exception raised ("none" if
\* none), val the array returned, ret the payload returned, flag the boolean
\* returned, arg the other arguments.
Op(op, item, data, before, exc, val, ret, flag, arg) ==
    [op |-> op, item |-> item, data |-> data, before |-> before, exc |-> exc,
     val |-> val, ret |-> ret, flag |-> flag, arg |-> arg]
NoArg == [none |-> TRUE]
NoFrame == [some |-> FALSE]

Init ==
    /\ \E cls \in {"Payload"}, words \in WordArrays, c \in Configs :
          LET r == __init__(cls, 0, words, c.bps, c.sample_shape, c.complex_data)
          IN  /\ r.exc = "none"
              /\ payload = r.val
              /\ last = Op("init", EmptyTuple, NoArray, r.val, "none", NoArray,
                           NoPayload, FALSE, NoArg)
    /\ nops = 0
    /\ fh = [bytes |-> <<>>, pos |-> 0, writes |-> 0, wstart |-> None]
    /\ frame = NoFrame

\* x = payload[item]
GetItem ==
    /\ nops < MaxOps
    /\ \E item \in Items : \E r \in { __getitem__(payload, item) } :
              last' = Op("getitem", item, NoArray, payload, r.exc,
                         IF r.exc = "none" THEN r.val ELSE NoArray,
                         NoPayload, FALSE, NoArg)
    /\ nops' = nops + 1
    /\ UNCHANGED << payload, fh, frame >>

\* payload[item] = data
SetItem ==
    /\ nops < MaxOps
    /\ \E item \in Items : \E data \in SetData(payload, item) :
          \E r \in { __setitem__(payload, item, data) } :
              /\ payload' = IF r.exc = "none" THEN r.val ELSE payload
              /\ last' = Op("setitem", item, data, payload, r.exc, NoArray,
                            NoPayload, FALSE, NoArg)
    /\ nops' = nops + 1
    /\ UNCHANGED << fh, frame >>

\* payload[item] = sel_data, where sel_data is what payload[item] was before
\* the assignment just made.
Restore ==
    /\ last.op = "setitem"
    /\ last.exc = "none"
    /\ \E sel \in { __getitem__(last.before, last.item) } :
          /\ sel.exc = "none"
          /\ \E r \in { __setitem__(payload, last.item, sel.val) } :
                /\ payload' = IF r.exc = "none" THEN r.val ELSE payload
                /\ last' = Op("restore", last.item, sel.val, last.before, r.exc,
                              NoArray, Some(payload), FALSE, NoArg)
    /\ UNCHANGED << nops, fh, frame >>

\* The configuration a payload was built with.
CfgOf(p) == Cfg(p.bps, p.sample_shape, p.complex_data)

\* cls(words, bps, sample_shape, complex_data), on the word array of the
\* payload at hand or on a new one.
Construct ==
    /\ nops < MaxOps
    /\ \E cls \in Classes, c \in Configs,
          w \in { [wid |-> 1, words |-> ws] : ws \in WordArrays }
                \cup { [wid |-> payload.wid, words |-> payload.words] } :
          \E r \in { __init__(cls, w.wid, w.words, c.bps, c.sample_shape,
                              c.complex_data) } :
              last' = Op("construct", EmptyTuple, NoArray, payload, r.exc, NoArray,
                         IF r.exc = "none" THEN Some(r.val) ELSE NoPayload, FALSE,
                         [cls |-> cls, words |-> w.words, cfg |-> c])
    /\ nops' = nops + 1
    /\ UNCHANGED << payload, fh, frame >>

\* Arrays given to fromdata: the decoded payload, the same flattened, and
\* arrays that were not decoded from a payload.
FromDataArrays(p) ==
    UNION { { r.val, Array(r.val.kind, <<ArraySize(r.val)>>, r.val.vals) } :
            r \in { g \in { __getitem__(p, EmptyTuple) } : g.exc = "none" } }
    \cup { Array("c", <<2, 2>>, <<0, 0, 0, 0, 0, 0, 0, 0>>),
           Array("f", <<4, 1>>, <<1, 0 - 1, 200, 0>>),
           Array("f", <<3>>, <<1, 2, 3>>) }

\* cls.fromdata(data, bps)
FromData ==
    /\ nops < MaxOps
    /\ \E cls \in Classes, data \in FromDataArrays(payload), bps \in { 1, 4, 8 } :
          \E r \in { fromdata(cls, 2, data, bps) } :
              last' = Op("fromdata", EmptyTuple, data, payload, r.exc, NoArray,
                         IF r.exc = "none" THEN Some(r.val) ELSE NoPayload, FALSE,
                         [cls |-> cls, bps |-> bps])
    /\ nops' = nops + 1
    /\ UNCHANGED << payload, fh, frame >>

\* The payloads the payload at hand is compared with: payloads on the same
\* word array, on a copy of it, and on arrays that differ from it, in the
\* configurations above and in two more that give an 8-bit payload the same
\* shape with the other dtype.
Others(p) ==
    LET made == { __init__(cls, w.wid, w.words, c.bps, c.sample_shape, c.complex_data) :
                    cls \in Classes,
                    c \in Configs \cup { Cfg(16, p.sample_shape, FALSE),
                                         Cfg(4, p.sample_shape, TRUE) },
                    w \in { [wid |-> p.wid, words |-> p.words],
                            [wid |-> 1, words |-> p.words] }
                          \cup { [wid |-> 1, words |-> ws] : ws \in WordArrays } }
    IN  { r.val : r \in { m \in made : m.exc = "none" } }

\* payload == other, payload != other
Compare ==
    /\ nops < MaxOps
    /\ \E other \in Others(payload) :
          last' = Op("compare", EmptyTuple, NoArray, payload, "none", NoArray,
                     Some(other), FALSE,
                     [eq |-> __eq__(payload, other), ne |-> __ne__(payload, other)])
    /\ nops' = nops + 1
    /\ UNCHANGED << payload, fh, frame >>

Next == GetItem \/ SetItem \/ Restore \/ Construct \/ FromData \/ Compare

Spec == Init /\ [][Next]_vars

\* ------------------------------------------------------------ file streams
\* Values of the payloadsize argument; None for a call without it.
PayloadSizes == { None } \cup (1..(WordBytes * MaxWords))

\* payload.tofile(fh)
ToFile ==
    /\ fh.writes < MaxWrites
    /\ fh' = [tofile(payload, fh) EXCEPT !.writes = fh.writes + 1,
                                         !.wstart = fh.pos]
    /\ last' = Op("tofile", EmptyTuple, NoArray, payload, "none", NoArray,
                  NoPayload, FALSE, [fh |-> fh])
    /\ UNCHANGED << payload, nops, frame >>

\* fh.seek(k)
Seek ==
    /\ \E k \in 0..(Len(fh.bytes) + 1) :
          /\ k # fh.pos
          /\ fh' = [fh EXCEPT !.pos = k]
          /\ last' = Op("seek", EmptyTuple, NoArray, payload, "none", NoArray,
                        NoPayload, FALSE, [fh |-> fh])
    /\ UNCHANGED << payload, nops, frame >>

\* cls.fromfile(fh, payloadsize=payloadsize, **kwargs)
FromFile ==
    /\ nops < MaxOps
    /\ \E cls \in Classes, psize \in PayloadSizes,
          c \in { CfgOf(payload), Cfg(8, <<2>>, FALSE) } :
          \E r \in { fromfile(cls, 3, fh, psize, c) } :
              /\ fh' = r.fh
              /\ last' = Op("fromfile", EmptyTuple, NoArray, payload, r.res.exc,
                            NoArray,
                            IF r.res.exc = "none" THEN Some(r.res.val) ELSE NoPayload,
                            FALSE,
                            [cls |-> cls, payloadsize |-> psize, cfg |-> c, fh |-> fh])
    /\ nops' = nops + 1
    /\ UNCHANGED << payload, frame >>

NextIO == ToFile \/ Seek \/ FromFile

SpecIO == Init /\ [][NextIO]_vars

\* -------------------------------------------------------------------- frame
\* The headers a frame is built with, and the values set as fill value.
Headers == { 0, 1 }
InvalidDataValues == { 0, 1 }

\* Frame(header, payload, valid): a header, a payload and a validity flag;
\* the fill value is zero until it is set.
VLBIFrameBase(header, p, valid) ==
    [some |-> TRUE, header |-> header, payload |-> p, valid |-> valid,
     invalid_data_value |-> 0]

\* An array of the given kind and shape with every entry equal to value.
Full(kind, shp, value) ==
    Array(kind, shp, [k \in 1..(Prod(shp) * ElemWidth(kind)) |->
                         IF kind = "c" /\ k % 2 = 0 THEN 0 ELSE value])

\* frame.data that returns the decoded payload whether or not the frame is
\* valid.
FrameData_Raw(f) == __getitem__(f.payload, EmptyTuple)

\* frame.data: the decoded payload, with every sample replaced by the fill
\* value when the frame is not valid.
FrameData(f) ==
    The({ IF r.exc # "none" THEN Err(r.exc)
          ELSE IF f.valid THEN r
          ELSE Ok(Full(r.val.kind, r.val.shape, f.invalid_data_value)) :
          r \in { __getitem__(f.payload, EmptyTuple) } })

\* frame == other: the headers are equal and the payloads are equal.
FrameEq(f, other) == f.header = other.header /\ __eq__(f.payload, other.payload)

\* A frame is constructed on the payload at hand, valid or not.
InitFrame ==
    /\ \E cls \in {"Payload"}, words \in WordArrays, c \in Configs,
          header \in Headers, valid \in BOOLEAN :
          LET r == __init__(cls, 0, words, c.bps, c.sample_shape, c.complex_data)
          IN  /\ r.exc = "none"
              /\ payload = r.val
              /\ frame = VLBIFrameBase(header, r.val, valid)
              /\ last = Op("frame", EmptyTuple, NoArray, r.val, "none", NoArray,
                           NoPayload, FALSE, [valid |-> valid])
    /\ nops = 0
    /\ fh = [bytes |-> <<>>, pos |-> 0, writes |-> 0, wstart |-> None]

\* frame.valid = valid
SetValid ==
    /\ \E valid \in BOOLEAN :
          /\ frame' = [frame EXCEPT !.valid = valid]
          /\ last' = Op("setvalid", EmptyTuple, NoArray, frame.payload, "none",
                        NoArray, NoPayload, FALSE, [frame |-> frame])
    /\ UNCHANGED << payload, nops, fh >>

\* frame.invalid_data_value = value
SetInvalidDataValue ==
    /\ \E value \in InvalidDataValues :
          /\ frame' = [frame EXCEPT !.invalid_data_value = value]
          /\ last' = Op("setfill", EmptyTuple, NoArray, frame.payload, "none",
                        NoArray, NoPayload, FALSE, [frame |-> frame])
    /\ UNCHANGED << payload, nops, fh >>

\* x = frame.data
GetFrameData ==
    /\ \E r \in { FrameData(frame) } :
          last' = Op("framedata", EmptyTuple, NoArray, frame.payload, r.exc,
                     IF r.exc = "none" THEN r.val ELSE NoArray,
                     NoPayload, FALSE, [frame |-> frame])
    /\ UNCHANGED << payload, nops, fh, frame >>

\* frame == Frame(header, payload): the frame is compared with a valid frame
\* of some header on its payload.
FrameCompare ==
    /\ \E header \in Headers :
          last' = Op("framecompare", EmptyTuple, NoArray, frame.payload, "none",
                     NoArray, NoPayload,
                     FrameEq(frame, VLBIFrameBase(header, payload, TRUE)),
                     [frame |-> frame, header |-> header])
    /\ UNCHANGED << payload, nops, fh, frame >>

NextFrame == SetValid \/ SetInvalidDataValue \/ GetFrameData \/ FrameCompare

SpecFrame == InitFrame /\ [][NextFrame]_vars

\* ------------------------------------------------------------ stream reader
\* The on-disk frame, scaled down: a header of HeaderSize bytes - the sync
\* byte, then the frame number - followed by PayloadBytes bytes of payload.
HeaderSize == 2
PayloadBytes == 2
SyncByte == 7
FrameSize == HeaderSize + PayloadBytes

\* Number of frames written to a stream.
MaxFrames == 3

\* The bytes of frame number k; the payload bytes differ from the sync byte.
FrameBytes(k) == << SyncByte, k, 100 + k, 0 >>

\* The stream of MaxFrames consecutive frames.
WholeStream == Flatten([k \in 1..MaxFrames |-> FrameBytes(k - 1)])

\* The streams read: the whole stream with the bytes a+1..b missing, which
\* covers the intact stream, truncated streams and streams with a gap.
Streams ==
    { SubSeq(WholeStream, 1, a) \o SubSeq(WholeStream, b + 1, Len(WholeStream)) :
        a \in 0..Len(WholeStream), b \in 0..Len(WholeStream) }

\* Template headers: one with the sync byte of the frames, one that no
\* frame matches.
Templates == { [sync |-> SyncByte], [sync |-> 9] }

NoHeader == [some |-> FALSE]

\* read_header at offset o: the header parsed from the bytes there; the end
\* of the data if the stream does not hold a full header at o.
ParseHeader(bytes, o) ==
    IF o < 0 \/ o + HeaderSize > Len(bytes) THEN Err("EOFError")
    ELSE Ok([some |-> TRUE, sync |-> bytes[o + 1], frame_nr |-> bytes[o + 2]])

\* Whether the invariant fields of header h are those of the template.
MatchesTemplate(h, template) == h.sync = template.sync

\* The scan of find_header: from offset o, one byte at a time in the
\* direction asked for, up to the first offset at which a header parses and
\* matches the template; None when the boundary of the stream is reached.
RECURSIVE ScanFrom(_, _, _, _)
ScanFrom(bytes, o, forward, template) ==
    IF forward /\ o + HeaderSize > Len(bytes) THEN None
    ELSE IF ~forward /\ o < 0 THEN None
    ELSE IF ParseHeader(bytes, o).exc = "none"
            /\ MatchesTemplate(ParseHeader(bytes, o).val, template)
    THEN o
    ELSE ScanFrom(bytes, IF forward THEN o + 1 ELSE o - 1, forward, template)

\* find_header that leaves the cursor where the scan ended when nothing
\* matched.
find_header_NoSeekBack(f, template, forward) ==
    The({ IF o = None
          THEN [header |-> NoHeader,
                fh |-> [f EXCEPT !.pos = IF forward THEN Len(f.bytes) ELSE 0]]
          ELSE [header |-> ParseHeader(f.bytes, o).val, fh |-> [f EXCEPT !.pos = o]] :
          o \in { ScanFrom(f.bytes, f.pos, forward, template) } })

\* find_header(template_header, forward): the header found (NoHeader for the
\* sentinel) and the file handle afterwards.
find_header(f, template, forward) ==
    The({ IF o = None THEN [header |-> NoHeader, fh |-> f]
          ELSE [header |-> ParseHeader(f.bytes, o).val, fh |-> [f EXCEPT !.pos = o]] :
          o \in { ScanFrom(f.bytes, f.pos, forward, template) } })

\* A stream is opened for reading, the cursor at its start.
InitFind ==
    /\ \E r \in { __init__("Payload", 0, << Word(4660, 22136) >>, 8, <<2>>, FALSE) } :
          /\ payload = r.val
          /\ last = Op("open", EmptyTuple, NoArray, r.val, "none", NoArray,
                       NoPayload, FALSE, NoArg)
    /\ nops = 0
    /\ \E s \in Streams :
          fh = [bytes |-> s, pos |-> 0, writes |-> 0, wstart |-> None]
    /\ frame = NoFrame

\* header = fh.find_header(template_header=template, forward=forward)
FindHeader ==
    /\ \E template \in Templates, forward \in BOOLEAN :
          \E r \in { find_header(fh, template, forward) } :
              /\ fh' = r.fh
              /\ last' = Op("find_header", EmptyTuple, NoArray, payload, "none",
                            NoArray, NoPayload, forward,
                            [fh |-> fh, template |-> template, header |-> r.header])
    /\ UNCHANGED << payload, nops, frame >>

NextFind == Seek \/ FindHeader

SpecFind == InitFind /\ [][NextFind]_vars

\* ------------------------------------------------------------------- claims
\* Whether the bits per full sample divide the word width or are a multiple
\* of it.
SupportedBpfs(p) == BitsPerWord % p.bpfs = 0 \/ p.bpfs % BitsPerWord = 0

\* An integer index within [-nsample, nsample).
InRangeInt(p, item) ==
    item.t = "int" /\ 0 - nsample(p) <= item.i /\ item.i < nsample(p)

\* A slice with step 1 (given as None or as 1).
UnitSlice(item) == item.t = "slice" /\ item.sl[3] \in { None, 1 }

\* C1: on a payload whose bits per full sample divide 32 or are a multiple
\* of 32, payload[item] for an integer index in [-nsample, nsample) or a
\* slice with step 1 returns what payload.todata()[item] returns, with the
\* same values and the same shape.
C1_GetItemIsTodataItem ==
    (/\ last.op = "getitem"
     /\ SupportedBpfs(last.before)
     /\ InRangeInt(last.before, last.item) \/ UnitSlice(last.item)
     /\ todata(last.before).exc = "none")
    => /\ last.exc = "none"
       /\ ArrayIndex(todata(last.before).val, last.item).exc = "none"
       /\ last.val = ArrayIndex(todata(last.before).val, last.item).val

\* C1 witness: a slice that starts and stops inside words of a payload with
\* several samples per word was read, and selected something.
C1_Witness ==
    /\ last.op = "getitem"
    /\ last.exc = "none"
    /\ UnitSlice(last.item)
    /\ last.before.bpfs < BitsPerWord
    /\ Len(last.before.words) > 1
    /\ last.val.shape[1] > 1
    /\ last.val.shape[1] < nsample(last.before)
    /\ last.item.sl[1] # None /\ last.item.sl[1] < 0
    /\ (last.item.sl[1] + nsample(last.before)) % (BitsPerWord \div last.before.bpfs) # 0
    /\ todata(last.before).exc = "none"

\* The elements (numbered from 1 in C order) of an array of the given shape
\* that arr[item] selects, in the order of the result; an exception if numpy
\* rejects the item.
Selected(shp, item) ==
    ArrayIndex(Array("f", shp, [k \in 1..Prod(shp) |-> k]), item)

\* Whether new is old with exactly the elements that item selects replaced by
\* data (broadcast to the selection), all others as they were.
AssignedExactly(old, new, item, data) ==
    \E sel \in { Selected(old.shape, item) } :
       /\ sel.exc = "none"
       /\ new.kind = old.kind /\ new.shape = old.shape
       /\ \E b \in { Broadcast(data, old.kind, sel.val.shape) } :
             /\ b.exc = "none"
             /\ \A e \in 1..Prod(old.shape) : \A j \in 1..ElemWidth(old.kind) :
                   LET at == (e - 1) * ElemWidth(old.kind) + j
                       hits == { k \in 1..Len(sel.val.vals) : sel.val.vals[k] = e }
                   IN  IF hits = {} THEN new.vals[at] = old.vals[at]
                       ELSE \E k \in hits :
                               new.vals[at] = b.val[(k - 1) * ElemWidth(old.kind) + j]

\* A tuple of two indices that numpy accepts on the decoded array of p.
ValidTuple(p, item) ==
    /\ item.t = "tuple" /\ item # EmptyTuple
    /\ todata(p).exc = "none"
    /\ ArrayIndex(todata(p).val, item).exc = "none"

\* A tuple of two indices whose channel index is out of range.
ChannelOutOfRange(p, item) ==
    /\ item.t = "tuple" /\ item # EmptyTuple
    /\ Len(p.sample_shape) = 1
    /\ item.b.t = "int"
    /\ ~(0 - p.sample_shape[1] <= item.b.i /\ item.b.i < p.sample_shape[1])

\* C2 (as claimed): item access and item assignment accept a tuple of
\* index/slice across the sample dimensions: for a tuple valid on the
\* decoded array payload[item] equals payload.todata()[item] and
\* payload[item] = x changes exactly those elements; a tuple whose channel
\* index is out of range raises IndexError.
C2_TupleItemsAccepted ==
    /\ (last.op = "getitem" /\ ValidTuple(last.before, last.item))
       => /\ last.exc = "none"
          /\ last.val = ArrayIndex(todata(last.before).val, last.item).val
    /\ (last.op = "setitem" /\ ValidTuple(last.before, last.item))
       => /\ last.exc = "none"
          /\ AssignedExactly(todata(last.before).val, todata(payload).val,
                             last.item, last.data)
    /\ (last.op \in { "getitem", "setitem" } /\ SupportedBpfs(last.before)
        /\ <<last.before.bps, FALSE>> \in _decoders
        /\ ChannelOutOfRange(last.before, last.item))
       => last.exc = "IndexError"

\* The values the codec registered for bps stores exactly.
Representable(bps, data) ==
    \A k \in 1..Len(data.vals) :
       IF bps = 1 THEN data.vals[k] \in { 0, 1 }
       ELSE 0 - 128 <= data.vals[k] /\ data.vals[k] <= 127

\* The items C1 names: an integer in [-nsample, nsample), a slice with step 1.
SupportedItem(p, item) == InRangeInt(p, item) \/ UnitSlice(item)

\* data as numpy compares it with an array of the given kind and shape: the
\* entries of data broadcast to that shape.
SameAs(arr, data) ==
    \E b \in { Broadcast(data, arr.kind, arr.shape) } :
       b.exc = "none" /\ b.val = arr.vals

\* C3: for a supported item and data of the selected region's shape whose
\* values the codec stores exactly, payload[item] = x succeeds and
\* payload[item] read afterwards returns x.
C3_SetThenGet ==
    (/\ last.op = "setitem"
     /\ SupportedBpfs(last.before)
     /\ SupportedItem(last.before, last.item)
     /\ __getitem__(last.before, last.item).exc = "none"
     /\ last.data.shape = __getitem__(last.before, last.item).val.shape
     /\ <<last.before.bps, FALSE>> \in _encoders
     /\ Representable(last.before.bps, last.data))
    => /\ last.exc = "none"
       /\ \E r \in { __getitem__(payload, last.item) } :
             /\ r.exc = "none"
             /\ r.val.shape = __getitem__(last.before, last.item).val.shape
             /\ SameAs(r.val, last.data)

\* C3 witness: an array of the region's shape was assigned to a slice that
\* covers parts of two words, and changed the words.
C3_Witness ==
    /\ last.op = "setitem"
    /\ last.exc = "none"
    /\ UnitSlice(last.item)
    /\ last.before.bpfs < BitsPerWord
    /\ last.data.kind # "i"
    /\ last.data.shape # <<>> /\ last.data.shape[1] = 2
    /\ Representable(last.before.bps, last.data)
    /\ payload.words[1] # last.before.words[1]
    /\ Len(payload.words) > 1 /\ payload.words[2] # last.before.words[2]

\* C4: for a supported item, assigning a value to payload[item] and then
\* assigning back the value decoded from it before makes the payload equal
\* to what it was before the first assignment, with the same words.
C4_RestoreEqual ==
    (/\ last.op = "restore"
     /\ SupportedBpfs(last.before)
     /\ SupportedItem(last.before, last.item))
    => /\ last.exc = "none"
       /\ __eq__(payload, last.before)
       /\ payload.words = last.before.words

\* C4 witness: an assignment changed the words, and assigning the value
\* decoded before brought them back.
C4_Witness ==
    /\ last.op = "restore"
    /\ last.exc = "none"
    /\ SupportedItem(last.before, last.item)
    /\ last.ret.p.words # last.before.words
    /\ payload.words = last.before.words

\* C5: tofile writes exactly size bytes at the cursor, the words in order,
\* each as four little-endian bytes, and touches nothing else; fromfile
\* with the same bps, sample_shape and complex flag, reading where tofile
\* wrote, returns a payload equal to the written one with the same words.
C5_FileRoundTrip ==
    /\ last.op = "tofile"
       => \E old \in { last.arg.fh } :
             /\ fh.pos = old.pos + 4 * Len(payload.words)
             /\ Len(fh.bytes) = Max(Len(old.bytes), fh.pos)
             /\ \A k \in 1..Len(old.bytes) :
                   (k <= old.pos \/ k > fh.pos) => fh.bytes[k] = old.bytes[k]
             /\ \A k \in 1..Len(payload.words) :
                   \E at \in { old.pos + 4 * (k - 1) } :
                      /\ fh.bytes[at + 1] + 256 * fh.bytes[at + 2] = payload.words[k][2]
                      /\ fh.bytes[at + 3] + 256 * fh.bytes[at + 4] = payload.words[k][1]
                      /\ \A j \in 1..4 : fh.bytes[at + j] \in 0..255
    /\ (/\ last.op = "fromfile"
        /\ last.arg.fh.writes > 0
        /\ last.arg.fh.pos = last.arg.fh.wstart
        /\ last.arg.cls = payload.cls
        /\ last.arg.cfg = CfgOf(payload)
        /\ last.arg.payloadsize = 4 * Len(payload.words))
       => /\ last.exc = "none"
          /\ last.ret.some
          /\ __eq__(last.ret.p, payload)
          /\ last.ret.p.wid # payload.wid
          /\ last.ret.p.words = payload.words
          /\ fh.pos = last.arg.fh.pos + 4 * Len(payload.words)

\* C5 witness: a payload of two different words, written past the start of
\* the stream, was read back from where it was written.
C5_Witness ==
    /\ last.op = "fromfile"
    /\ last.exc = "none"
    /\ last.arg.fh.writes > 0
    /\ last.arg.fh.wstart > 0
    /\ last.arg.fh.pos = last.arg.fh.wstart
    /\ last.arg.cfg = CfgOf(payload)
    /\ Len(payload.words) = 2
    /\ payload.words[1] # payload.words[2]
    /\ last.ret.p.words = payload.words

\* C6: for a payload p whose codec is registered, fromdata(p.data, bps=p.bps)
\* returns a payload equal to p, with the same words, sample_shape, bps and
\* complex flag.
C6_FromDataOfData ==
    (/\ last.op = "fromdata"
     /\ <<payload.bps, payload.complex_data>> \in _encoders
     /\ <<payload.bps, payload.complex_data>> \in _decoders
     /\ __getitem__(payload, EmptyTuple).exc = "none"
     /\ last.data = __getitem__(payload, EmptyTuple).val
     /\ last.arg.bps = payload.bps
     /\ last.arg.cls = payload.cls)
    => /\ last.exc = "none"
       /\ last.ret.some
       /\ __eq__(last.ret.p, payload)
       /\ last.ret.p.wid # payload.wid
       /\ last.ret.p.words = payload.words
       /\ last.ret.p.sample_shape = payload.sample_shape
       /\ last.ret.p.bps = payload.bps
       /\ last.ret.p.complex_data = payload.complex_data

\* C6 witness: the data of a complex payload of two different words, with
\* two channels, gave the payload back.
C6_Witness ==
    /\ last.op = "fromdata"
    /\ last.exc = "none"
    /\ __getitem__(payload, EmptyTuple).exc = "none"
    /\ last.data = __getitem__(payload, EmptyTuple).val
    /\ last.arg.bps = payload.bps
    /\ payload.complex_data
    /\ payload.sample_shape = <<2>>
    /\ Len(payload.words) = 2
    /\ payload.words[1] # payload.words[2]
    /\ last.ret.p.words = payload.words

\* C7: when fewer bytes are available than the payload size asked for,
\* fromfile raises EOFError and returns no payload; the bytes of the
\* stream are as they were and the cursor is where the short read left it.
C7_ShortReadEOF ==
    (/\ last.op = "fromfile"
     /\ last.arg.payloadsize # None
     /\ Len(last.arg.fh.bytes) - last.arg.fh.pos < last.arg.payloadsize)
    => /\ last.exc = "EOFError"
       /\ ~last.ret.some
       /\ fh.bytes = last.arg.fh.bytes
       /\ fh.pos = Max(last.arg.fh.pos, Len(last.arg.fh.bytes))

\* C7 witness: a read that began inside the stream found some but not all
\* of the bytes asked for.
C7_Witness ==
    /\ last.op = "fromfile"
    /\ last.exc = "EOFError"
    /\ last.arg.fh.pos > 0
    /\ last.arg.fh.pos < Len(last.arg.fh.bytes)
    /\ last.arg.payloadsize % 4 = 0
    /\ fh.pos = Len(fh.bytes)
    /\ fh.pos > last.arg.fh.pos

\* The payload instances of a state: the one at hand and the one the last
\* operation returned.
Instances == { payload } \cup (IF last.ret.some THEN { last.ret.p } ELSE {})

\* C8 (as claimed): every payload instance satisfies size == 4 * len(words)
\* and nsample * bpfs == size * 8.
C8_SizeIsSamples ==
    \A p \in Instances :
       /\ size(p) = 4 * Len(p.words)
       /\ nsample(p) * p.bpfs = size(p) * 8

\* C8 (amended): every payload instance satisfies size == 4 * len(words)
\* and nsample == floor(size * 8 / bpfs): nsample * bpfs <= size * 8 <
\* (nsample + 1) * bpfs, with equality exactly when bpfs divides the number
\* of bits of the words; item assignment leaves size and nsample unchanged.
C8_SizeAndWholeSamples ==
    /\ \A p \in Instances :
          /\ size(p) = 4 * Len(p.words)
          /\ nsample(p) * p.bpfs <= size(p) * 8
          /\ size(p) * 8 < (nsample(p) + 1) * p.bpfs
          /\ (nsample(p) * p.bpfs = size(p) * 8) <=> ((32 * Len(p.words)) % p.bpfs = 0)
    /\ last.op \in { "setitem", "restore" }
       => /\ size(payload) = size(last.before)
          /\ nsample(payload) = nsample(last.before)

\* C8 witness: a payload was constructed on words whose bits do not make a
\* whole number of samples.
C8_Witness ==
    /\ last.op = "construct"
    /\ last.ret.some
    /\ nsample(last.ret.p) > 0
    /\ nsample(last.ret.p) * last.ret.p.bpfs < size(last.ret.p) * 8

\* C9: a class with a fixed payload size raises ValueError, and makes no
\* instance, when the words' byte size differs from it; a class without one
\* accepts words of any length.
C9_FixedSizeChecked ==
    last.op = "construct"
    => /\ (last.arg.cls = "FixedPayload" /\ Len(last.arg.words) # FixedWords)
          => (last.exc = "ValueError" /\ ~last.ret.some)
       /\ (last.arg.cls = "FixedPayload" /\ Len(last.arg.words) = FixedWords)
          => (last.exc = "none" /\ last.ret.some)
       /\ last.arg.cls = "Payload"
          => (last.exc = "none" /\ last.ret.some)
       /\ last.ret.some
          => /\ last.ret.p.words = last.arg.words
             /\ last.ret.p.cls = last.arg.cls
             /\ CfgOf(last.ret.p) = last.arg.cfg

\* C9 witness: the class with a fixed size was given words of another size.
C9_Witness ==
    /\ last.op = "construct"
    /\ last.arg.cls = "FixedPayload"
    /\ Len(last.arg.words) > 0
    /\ Len(last.arg.words) # FixedWords
    /\ last.exc = "ValueError"

\* C10 (as claimed): two payloads are equal exactly when they have the same class, the
\* same shape, the same dtype and identical words; != is the negation of
\* ==; payloads with the same words but another sample_shape or complex
\* flag are unequal.
C10_Equality ==
    last.op = "compare"
    => \E o \in { last.ret.p } :
          /\ last.arg.eq <=> /\ payload.cls = o.cls
                             /\ shape(payload) = shape(o)
                             /\ payload.complex_data = o.complex_data
                             /\ payload.words = o.words
          /\ last.arg.ne <=> ~last.arg.eq
          /\ (/\ payload.words = o.words
              /\ \/ payload.sample_shape # o.sample_shape
                 \/ payload.complex_data # o.complex_data)
             => (~last.arg.eq /\ last.arg.ne)

\* An integer item outside [-nsample, nsample).
OutOfRangeInt(p, item) ==
    item.t = "int" /\ (item.i < 0 - nsample(p) \/ item.i >= nsample(p))

\* C11: an integer index i with -nsample <= i < 0 addresses sample
\* i + nsample, on read and on assignment (of data that broadcasts to one
\* sample); an integer index outside
\* [-nsample, nsample) raises IndexError on read (of a payload whose decoder
\* is registered) and on assignment, and the words stay as they were.
C11_IntegerIndices ==
    /\ (/\ last.op = "getitem"
        /\ InRangeInt(last.before, last.item) /\ last.item.i < 0
        /\ SupportedBpfs(last.before)
        /\ todata(last.before).exc = "none")
       => /\ last.exc = "none"
          /\ last.val.shape = last.before.sample_shape
          /\ last.val.vals = Row(todata(last.before).val,
                                 last.item.i + nsample(last.before))
    /\ (/\ last.op = "setitem"
        /\ InRangeInt(last.before, last.item) /\ last.item.i < 0
        /\ SupportedBpfs(last.before)
        /\ todata(last.before).exc = "none"
        /\ Broadcastable(last.data.shape, last.before.sample_shape)
        /\ Representable(last.before.bps, last.data))
       => /\ last.exc = "none"
          /\ \E td \in { todata(payload) } :
                /\ td.exc = "none"
                /\ \E b \in { Broadcast(last.data, td.val.kind,
                                        last.before.sample_shape) } :
                      /\ b.exc = "none"
                      /\ b.val = Row(td.val, last.item.i + nsample(last.before))
    /\ (/\ last.op \in { "getitem", "setitem" }
        /\ OutOfRangeInt(last.before, last.item)
        /\ last.op = "getitem" => <<last.before.bps, FALSE>> \in _decoders)
       => /\ last.exc = "IndexError"
          /\ payload.words = last.before.words

\* C11 witness: an assignment to a negative index inside the first of two
\* words changed that word alone.
C11_Witness ==
    /\ last.op = "setitem"
    /\ last.exc = "none"
    /\ InRangeInt(last.before, last.item) /\ last.item.i < 0
    /\ last.item.i + nsample(last.before) > 0
    /\ Len(payload.words) = 2
    /\ payload.words[1] # last.before.words[1]
    /\ payload.words[2] = last.before.words[2]

\* The number n of samples _item_to_slices takes an item to address: 1 for
\* an integer, stop - start for a slice.
Addressed(p, item) ==
    IF item.t = "int" THEN 1
    ELSE The({ ind[2] - ind[1] :
               ind \in { SliceIndices(item.sl[1], item.sl[2], item.sl[3], nsample(p)) } })

\* C12 (as claimed): on a payload whose bits per full sample neither divide
\* 32 nor are a multiple of it, item access and item assignment with any
\* in-range integer or any slice raise TypeError, the words unchanged.
C12_UnsupportedBpfsTypeError ==
    (/\ last.op \in { "getitem", "setitem" }
     /\ ~SupportedBpfs(last.before)
     /\ InRangeInt(last.before, last.item) \/ last.item.t = "slice")
    => /\ last.exc = "TypeError"
       /\ payload.words = last.before.words

\* C12 (amended): on such a payload item access (the decoder being
\* registered) and item assignment raise TypeError, the words unchanged,
\* for every in-range integer and every slice other than slice(None) that
\* does not address nsample samples (stop - start # nsample); an item that
\* addresses all nsample samples is served from the whole payload without
\* that error.
C12_UnsupportedBpfsPartial ==
    /\ (/\ last.op \in { "getitem", "setitem" }
        /\ ~SupportedBpfs(last.before)
        /\ InRangeInt(last.before, last.item) \/ last.item.t = "slice"
        /\ ~IsWhole(last.item)
        /\ Addressed(last.before, last.item) # nsample(last.before)
        /\ last.op = "getitem" => <<last.before.bps, FALSE>> \in _decoders)
       => /\ last.exc = "TypeError"
          /\ payload.words = last.before.words
    /\ (/\ last.op \in { "getitem", "setitem" }
        /\ ~SupportedBpfs(last.before)
        /\ InRangeInt(last.before, last.item) \/ last.item.t = "slice"
        /\ \/ IsWhole(last.item)
           \/ Addressed(last.before, last.item) = nsample(last.before))
       => last.exc # "TypeError"

\* C12 witness: an assignment to one sample of a payload of several samples
\* of 10 bits was refused.
C12_Witness ==
    /\ last.op = "setitem"
    /\ last.before.bpfs = 10
    /\ nsample(last.before) > 1
    /\ InRangeInt(last.before, last.item)
    /\ last.exc = "TypeError"
    /\ payload.words = last.before.words

\* The item selects a region of the decoded payload and the shape of data
\* cannot be broadcast to the shape of that region.
WrongShape(p, item, data) ==
    /\ item.t \in { "int", "slice" }
    /\ \E sel \in { __getitem__(p, item) } :
          /\ sel.exc = "none"
          /\ ~Broadcastable(data.shape, sel.val.shape)

\* C13 (as claimed): assigning to payload[item] data whose shape cannot be
\* broadcast to the shape of the selected region raises ValueError, and the
\* words of the payload are unchanged.
C13_WrongShapeValueError ==
    (/\ last.op = "setitem"
     /\ WrongShape(last.before, last.item, last.data))
    => /\ last.exc = "ValueError"
       /\ payload.words = last.before.words

\* C14: fromdata takes the data to be complex exactly when its element kind
\* is complex and uses the encoder registered for (bps, is_complex); when
\* none is registered it raises ValueError, never KeyError, and returns no
\* payload.
C14_FromDataSelectsEncoder ==
    last.op = "fromdata"
    => \E is_complex \in { last.data.kind = "c" } :
          /\ <<last.arg.bps, is_complex>> \notin _encoders
             => (last.exc = "ValueError" /\ ~last.ret.some)
          /\ last.exc # "KeyError"
          /\ last.ret.some
             => /\ <<last.arg.bps, is_complex>> \in _encoders
                /\ last.ret.p.complex_data = is_complex
                /\ last.ret.p.bps = last.arg.bps
                /\ last.ret.p.cls = last.arg.cls
                /\ last.ret.p.words = Encode(last.arg.bps, last.data.vals).val

\* C14 witness: complex data was given with a bps for which only a real
\* encoder is registered.
C14_Witness ==
    /\ last.op = "fromdata"
    /\ last.data.kind = "c"
    /\ <<last.arg.bps, FALSE>> \in _encoders
    /\ <<last.arg.bps, TRUE>> \notin _encoders
    /\ last.exc = "ValueError"
    /\ ~last.ret.some

\* No decoder is registered for the payload's own (bps, complex_data) pair.
NoOwnDecoder(p) == <<p.bps, p.complex_data>> \notin _decoders

\* C15 (as claimed): a payload can be constructed for a (bps, complex_data)
\* pair without a registered decoder, and todata(), the data property and
\* item access on it all fail with KeyError under the same condition: that
\* no decoder is registered for the payload's own pair.
C15_NoDecoderKeyError ==
    /\ (/\ last.op = "construct"
        /\ last.arg.cls = "Payload"
        /\ <<last.arg.cfg.bps, last.arg.cfg.complex_data>> \notin _decoders)
       => last.ret.some
    /\ (/\ last.op = "getitem"
        /\ last.item.t \in { "int", "slice" } \/ last.item = EmptyTuple)
       => /\ (todata(last.before).exc = "KeyError") <=> NoOwnDecoder(last.before)
          /\ (__getitem__(last.before, EmptyTuple).exc = "KeyError")
                <=> NoOwnDecoder(last.before)
          /\ (last.exc = "KeyError") <=> NoOwnDecoder(last.before)

\* C16: fromfile without a payloadsize, on the class that defines no
\* default size, raises ValueError and returns no payload, and the stream -
\* its cursor and its bytes - is as it was before the call.
C16_NoSizeNoRead ==
    (/\ last.op = "fromfile"
     /\ last.arg.payloadsize = None
     /\ last.arg.cls = "Payload")
    => /\ last.exc = "ValueError"
       /\ ~last.ret.some
       /\ fh.pos = last.arg.fh.pos
       /\ fh.bytes = last.arg.fh.bytes

\* C16 witness: the call was made with the cursor inside a stream that holds
\* a payload.
C16_Witness ==
    /\ last.op = "fromfile"
    /\ last.arg.payloadsize = None
    /\ last.arg.cls = "Payload"
    /\ last.exc = "ValueError"
    /\ last.arg.fh.writes > 0
    /\ last.arg.fh.pos > 0
    /\ last.arg.fh.pos < Len(last.arg.fh.bytes)
    /\ fh.pos = last.arg.fh.pos

\* The positions (0-based) of the words that __setitem__ takes for an item:
\* all of them for a whole item, else those of the word slice that
\* _item_to_slices computes.
WordRange(p, item) ==
    IF IsWhole(item) THEN SlicePositions(FullSlice, Len(p.words))
    ELSE SlicePositions(_item_to_slices(p, item).val.words_slice, Len(p.words))

\* Whether the words at the positions outside pos are the same in a and b.
SameOutside(a, b, pos) ==
    /\ Len(a) = Len(b)
    /\ \A j \in 1..Len(a) :
          (\A k \in 1..Len(pos) : pos[k] # j - 1) => a[j] = b[j]

\* Whether every element of old that item does not select has the same value
\* in new.
UnselectedKept(old, new, item) ==
    \E sel \in { Selected(old.shape, item) } :
       /\ sel.exc = "none"
       /\ new.kind = old.kind /\ new.shape = old.shape
       /\ \A e \in 1..Prod(old.shape) : \A j \in 1..ElemWidth(old.kind) :
             (\A k \in 1..Len(sel.val.vals) : sel.val.vals[k] # e)
             => new.vals[(e - 1) * ElemWidth(old.kind) + j]
                   = old.vals[(e - 1) * ElemWidth(old.kind) + j]

\* A slice that selects nothing.
EmptySlice(p, item) ==
    /\ item.t = "slice"
    /\ Selected(shape(p), item).exc = "none"
    /\ Selected(shape(p), item).val.vals = <<>>

\* C19: after payload[item] = x every word outside the word range computed
\* for item is unchanged and every decoded sample that item does not select
\* has the value it had (an assignment that raises changes nothing), and an
\* assignment to a slice that selects nothing leaves the payload equal to
\* what it was.
C19_OnlyAddressedChanges ==
    (/\ last.op = "setitem"
     /\ __getitem__(last.before, EmptyTuple).exc = "none")
    => /\ last.exc # "none" => payload = last.before
       /\ last.exc = "none"
          => /\ SameOutside(last.before.words, payload.words,
                            WordRange(last.before, last.item))
             /\ __getitem__(payload, EmptyTuple).exc = "none"
             /\ UnselectedKept(__getitem__(last.before, EmptyTuple).val,
                               __getitem__(payload, EmptyTuple).val, last.item)
       /\ (last.exc = "none" /\ EmptySlice(last.before, last.item))
          => /\ __eq__(payload, last.before)
             /\ payload.words = last.before.words

\* The word slice and the data slice that __setitem__ works with for an item.
SetItemSlices(p, item) ==
    IF IsWhole(item)
    THEN Ok([words_slice |-> FullSlice, data_slice |-> SliceIdx(None, None, None)])
    ELSE _item_to_slices(p, item)

\* Whether __setitem__ encodes the data given for the item without decoding.
EncodedDirectly(p, item, data) ==
    /\ SetItemSlices(p, item).exc = "none"
    /\ AvoidDecoding(p, SetItemSlices(p, item).val.data_slice, data)

\* What decoding the words of the item, assigning the data to the decoded
\* samples and encoding them again gives: the payload, or the exception.
ViaDecoding(p, item, data) ==
    DecodeAssignEncode(p, SetItemSlices(p, item).val.words_slice,
                       SetItemSlices(p, item).val.data_slice, data)

\* C20 (as claimed): whenever __setitem__ encodes the incoming data directly,
\* the words that result, or the exception raised, are those that decoding
\* the affected words, overwriting the selected samples and encoding again
\* would give.
C20_DirectEncodeEquivalent ==
    (/\ last.op = "setitem"
     /\ EncodedDirectly(last.before, last.item, last.data))
    => \E r \in { ViaDecoding(last.before, last.item, last.data) } :
          /\ last.exc = r.exc
          /\ last.exc = "none" => payload.words = r.val.words

\* C17: a frame that is not valid, whether made so at construction or later,
\* reads back as an array of the payload's shape and dtype filled with the
\* fill value (zero unless it was set), whatever the words; setting the flag
\* or the fill value leaves the payload and its words as they were; and a
\* frame whose flag is (again) true reads back as the decoded payload and is
\* equal to the valid frame of its header and payload.
C17_InvalidFrameReadsFill ==
    /\ (last.op = "framedata" /\ __getitem__(last.before, EmptyTuple).exc = "none")
       => /\ last.exc = "none"
          /\ ~frame.valid
             => last.val = Full(dtype(last.before), shape(last.before),
                                frame.invalid_data_value)
          /\ frame.valid => last.val = __getitem__(last.before, EmptyTuple).val
    /\ last.op \in { "setvalid", "setfill" }
       => /\ frame.payload = last.arg.frame.payload
          /\ frame.payload.words = last.before.words
          /\ payload = last.before
    /\ (last.op = "setvalid" /\ frame.valid
        /\ __getitem__(last.before, EmptyTuple).exc = "none")
       => /\ FrameData(frame) = __getitem__(last.before, EmptyTuple)
          /\ FrameEq(frame, VLBIFrameBase(frame.header, last.before, TRUE))
    /\ (last.op = "setvalid" /\ ~frame.valid
        /\ __getitem__(last.before, EmptyTuple).exc = "none")
       => FrameData(frame).val = Full(dtype(last.before), shape(last.before),
                                      frame.invalid_data_value)
    /\ (last.op = "framecompare" /\ frame.valid /\ last.arg.header = frame.header)
       => last.flag
    /\ last.op = "frame" => frame.invalid_data_value = 0

\* C17 witness: a frame that was not valid, on a payload that does not decode
\* to the fill value, with a fill value that had been set, was made valid.
C17_Witness ==
    /\ last.op = "setvalid"
    /\ ~last.arg.frame.valid
    /\ frame.valid
    /\ frame.invalid_data_value = 1
    /\ FrameData(last.arg.frame).exc = "none"
    /\ FrameData(last.arg.frame).val
          = Full(dtype(last.before), shape(last.before), 1)
    /\ FrameData(frame).val # FrameData(last.arg.frame).val
    /\ FrameData(frame).val = __getitem__(last.before, EmptyTuple).val

\* The offsets of a stream at which a header parses and matches the template.
MatchOffsets(bytes, template) ==
    { o \in 0..Len(bytes) :
        /\ ParseHeader(bytes, o).exc = "none"
        /\ MatchesTemplate(ParseHeader(bytes, o).val, template) }

\* Those among them that lie in the direction asked for, seen from pos.
Ahead(bytes, template, pos, forward) ==
    { o \in MatchOffsets(bytes, template) : IF forward THEN o >= pos ELSE o <= pos }

RequestedSamples(p, item) ==
    IF item.t = "int" THEN { WrapIndex(item.i, nsample(p)) }
    ELSE The({ { pos[k] : k \in 1..Len(pos) } :
               pos \in { SlicePositions(item.sl, nsample(p)) } })

\* The words (numbered from 0) that hold bits of sample k: the sample takes
\* the bits k * bpfs up to (k + 1) * bpfs of the payload.
WordsOfSample(p, k) ==
    { w \in 0..(Len(p.words) - 1) :
        /\ w >= (k * p.bpfs) \div BitsPerWord
        /\ w <= ((k + 1) * p.bpfs - 1) \div BitsPerWord }

\* The words (numbered from 0) of the word slice that _item_to_slices
\* returns for the item.
ReturnedWords(p, item) ==
    The({ { pos[k] : k \in 1..Len(pos) } :
          pos \in { SlicePositions(_item_to_slices(p, item).val.words_slice,
                                   Len(p.words)) } })

\* C21 (as claimed): for an in-range integer and for a slice with step 1,
\* empty slices included, on a payload of either packing (whole words per
\* sample, several samples per word), the word range that _item_to_slices
\* returns holds every bit of every requested sample and has no word that
\* holds no requested sample.
C21_MinimalWordRange ==
    (/\ last.op \in { "getitem", "setitem" }
     /\ SupportedBpfs(last.before)
     /\ InRangeInt(last.before, last.item) \/ UnitSlice(last.item))
    => /\ _item_to_slices(last.before, last.item).exc = "none"
       /\ \A k \in RequestedSamples(last.before, last.item) :
             WordsOfSample(last.before, k) \subseteq ReturnedWords(last.before, last.item)
       /\ \A w \in ReturnedWords(last.before, last.item) :
             \E k \in RequestedSamples(last.before, last.item) :
                w \in WordsOfSample(last.before, k)

\* A slice with a step greater than 1 or with a negative step.
SteppedSlice(item) ==
    item.t = "slice" /\ item.sl[3] # None /\ (item.sl[3] > 1 \/ item.sl[3] < 0)

\* C22 (as claimed): for a slice with a step greater than 1 or a negative
\* step, payload[item] returns what payload.todata()[item] returns, and
\* payload[item] = x, for x that fits the selection and that the codec
\* stores exactly, succeeds and changes exactly the samples that
\* todata()[item] selects.
C22_SteppedSlices ==
    (/\ SteppedSlice(last.item)
     /\ SupportedBpfs(last.before)
     /\ todata(last.before).exc = "none"
     /\ __getitem__(last.before, EmptyTuple).exc = "none")
    => /\ last.op = "getitem"
          => /\ last.exc = "none"
             /\ last.val = ArrayIndex(todata(last.before).val, last.item).val
       /\ (/\ last.op = "setitem"
           /\ Representable(last.before.bps, last.data)
           /\ Broadcastable(last.data.shape,
                            ArrayIndex(todata(last.before).val, last.item).val.shape))
          => /\ last.exc = "none"
             /\ AssignedExactly(todata(last.before).val, todata(payload).val,
                                last.item, last.data)

====
